---- MODULE Spec2Model ----
(***************************************************************************)
(* The data-synchronisation layer of the Bitcoin Explorer front end        *)
(* (src/src/App.tsx): the component's state slots, the three start-up      *)
(* fetches, the 30 s metrics poller, the on-click block-detail fetch and   *)
(* the copy-to-clipboard toast, on one event loop with a millisecond       *)
(* clock.  Requests in flight resolve in any order.                        *)
(***************************************************************************)
EXTENDS Integers, Sequences, FiniteSets

VARIABLES
    latestBlock,     \* useState<BlockMetrics | null>       (App.tsx:34)
    blockDetails,    \* useState<BlockMetrics | null>       (App.tsx:35)
    blockHistory,    \* useState<number[]>                  (App.tsx:36)
    bitcoinHistory,  \* useState<BitcoinHistory[] | null>   (App.tsx:37)
    loading,         \* useState<boolean>(true)             (App.tsx:38)
    error,           \* useState<string | null>             (App.tsx:39)
    showToast,       \* useState(false)                     (App.tsx:40)
    API_BASE_URL,    \* process.env.REACT_APP_BACKEND_API_URL (App.tsx:41)
    mounted,         \* the component is mounted: its state exists and is rendered
    inflight,        \* the axios requests issued and not yet settled
    intervalAt,      \* when the setInterval timer fires next, Never once cleared
    toastTimers,     \* the deadlines of the pending setTimeout callbacks, in creation order
    clipboard,       \* the system clipboard's content
    now,             \* the clock, in ms since mount
    issued,          \* history: the requests each stream has issued, the copy calls made
    lastOf,          \* history: each stream's most recently settled request
    lastCopyAt       \* history: the time of the most recent copyToClipboard call

vars == <<API_BASE_URL, latestBlock, blockDetails, blockHistory, bitcoinHistory, loading, error,
          showToast, mounted, inflight, intervalAt, toastTimers, clipboard, now,
          issued, lastOf, lastCopyAt>>

\* The state slots the render function reads (App.tsx:175-405).
view == <<latestBlock, blockDetails, blockHistory, bitcoinHistory, loading, error,
          showToast>>

hist == <<issued, lastOf, lastCopyAt>>

\* null, as held by a BlockMetrics | null slot and by the clipboard.
Null == 0
\* null, as held by the error slot.
NoError == "null"
\* null, as held by the bitcoinHistory slot; a held array a is <<a>>.
NoHistory == <<>>
\* An environment variable that is not set, and one that is.
Undefined == "undefined"
BackendUrl == "https://backend"
\* No time, no request yet.
Never == 0 - 1
Unsettled == [n |-> Never, ok |-> FALSE, data |-> 0, newest |-> Never]

(***************************************************************************)
(* Program constants.                                                      *)
(***************************************************************************)
PollInterval == 30000
ToastDelay == 2000

MetricsMsg == "Failed to fetch block metrics."
BlocksMsg == "Failed to fetch latest blocks."
DetailsMsg == "Failed to fetch block details."

(***************************************************************************)
(* Bounds of the model.                                                    *)
(***************************************************************************)
MaxTicks == 1        \* interval ticks the clock is run for
MaxGestures == 2     \* clicks of the user, on block-list entries and copy buttons
MaxPayload == 2      \* distinct BlockMetrics payloads the backend can return
MaxHeight == 2       \* distinct block heights the backend can list
MaxSamples == 3      \* length of the price-sample lists the chart data is checked on

TimeStep == ToastDelay \div 2
MaxTime == MaxTicks * PollInterval + ToastDelay

Streams == {"metrics", "blocks", "details", "history"}
Counters == Streams \cup {"copy"}
Payloads == 1..MaxPayload
Heights == 1..MaxHeight

\* The heights of S, most recent first.
RECURSIVE Descending(_)
Descending(S) ==
    IF S = {} THEN <<>>
    ELSE LET h == CHOOSE x \in S : \A y \in S : y <= x
         IN <<h>> \o Descending(S \ {h})

\* The arrays /latest_15_blocks can return: recent heights, most recent first.
BlockLists == {Descending(S) : S \in SUBSET Heights}

\* The `prices` arrays of [epoch_ms, price] pairs the price service can return.
PriceSamples == {<<>>, <<<<0, 100>>, <<3600000, 110>>>>}

MsPerDay == 24 * 60 * 60 * 1000

\* new Date(ms).toLocaleDateString(): the calendar day the instant falls on
\* (days since the epoch, in a zone at offset 0).
toLocaleDateString(ms) == ms \div MsPerDay

\* As formattedData, but the price is read from the pair's first element.
formattedData_WrongIndex(prices) ==
    [i \in 1..Len(prices) |->
        [date |-> toLocaleDateString(prices[i][1]), price |-> prices[i][1]]]

\* response.data.prices.map(price => ({date: ..., price: price[1]}))
formattedData(prices) ==
    [i \in 1..Len(prices) |->
        [date |-> toLocaleDateString(prices[i][1]), price |-> prices[i][2]]]

\* A React state setter: it replaces the slot while the component is mounted
\* and has no effect on an unmounted component.
setState(cur, v) == IF mounted THEN v ELSE cur

Request(s, n, h) == [stream |-> s, n |-> n, height |-> h]

\* The URL request r was issued to (App.tsx:46, 58, 68, 94): the base it was
\* built from, then the path.
Url(r) ==
    CASE r.stream = "metrics" -> <<API_BASE_URL, "/latest_block_metrics">>
      [] r.stream = "blocks" -> <<API_BASE_URL, "/latest_15_blocks">>
      [] r.stream = "details" -> <<API_BASE_URL, "/block/", r.height>>
      [] r.stream = "history" ->
            <<"https://api.coingecko.com", "/api/v3/coins/bitcoin/market_chart">>

\* The history entry of request r settling: its number, its outcome, the payload
\* the component received (none once it is unmounted), and the highest number
\* among its stream's requests that have succeeded so far.
Settled(r, ok, data) ==
    [n |-> r.n, ok |-> ok, data |-> IF mounted THEN data ELSE 0,
     newest |-> IF ok /\ r.n > lastOf[r.stream].newest
                THEN r.n ELSE lastOf[r.stream].newest]

\* The clicks the user has made so far.
Gestures == issued["details"] + issued["copy"]

Range(s) == {s[i] : i \in 1..Len(s)}

(***************************************************************************)
(* The state after the first render and the mount effect (App.tsx:84-87):  *)
(* the three start-up fetches are in flight and the interval is set.       *)
(***************************************************************************)
FirstRender ==
    /\ latestBlock = Null
    /\ blockDetails = Null
    /\ blockHistory = <<>>
    /\ bitcoinHistory = NoHistory
    /\ loading = TRUE
    /\ error = NoError
    /\ showToast = FALSE
    /\ mounted = TRUE
    /\ inflight = {Request("metrics", 0, 0), Request("blocks", 0, 0),
                   Request("history", 0, 0)}
    /\ intervalAt = PollInterval
    /\ toastTimers = <<>>
    /\ clipboard = Null
    /\ now = 0
    /\ issued = [c \in Counters |-> IF c \in {"details", "copy"} THEN 0 ELSE 1]
    /\ lastOf = [s \in Streams |-> Unsettled]
    /\ lastCopyAt = Never

\* The build whose environment sets REACT_APP_BACKEND_API_URL.
Init == API_BASE_URL = BackendUrl /\ FirstRender

\* The build whose environment leaves REACT_APP_BACKEND_API_URL unset.
InitUnset == API_BASE_URL = Undefined /\ FirstRender

(***************************************************************************)
(* fetchBlockMetrics (App.tsx:44-54), from the point its request settles.  *)
(***************************************************************************)
\* As fetchBlockMetricsOk, but a response older than one already applied is dropped.
fetchBlockMetricsOk_DropStale(r, data) ==
    /\ r \in inflight /\ r.stream = "metrics"
    /\ inflight' = inflight \ {r}
    /\ latestBlock' = IF r.n < lastOf["metrics"].newest THEN latestBlock
                      ELSE setState(latestBlock, data)
    /\ loading' = setState(loading, FALSE)
    /\ lastOf' = [lastOf EXCEPT !["metrics"] = Settled(r, TRUE, data)]
    /\ UNCHANGED <<API_BASE_URL, blockDetails, blockHistory, bitcoinHistory, error, showToast,
                   mounted, intervalAt, toastTimers, clipboard, now, issued,
                   lastCopyAt>>

\* As fetchBlockMetricsOk, but a new snapshot also clears the selected block.
fetchBlockMetricsOk_ClearsDetail(r, data) ==
    /\ r \in inflight /\ r.stream = "metrics"
    /\ inflight' = inflight \ {r}
    /\ latestBlock' = setState(latestBlock, data)
    /\ blockDetails' = setState(blockDetails, Null)
    /\ loading' = setState(loading, FALSE)
    /\ lastOf' = [lastOf EXCEPT !["metrics"] = Settled(r, TRUE, data)]
    /\ UNCHANGED <<API_BASE_URL, blockHistory, bitcoinHistory, error, showToast,
                   mounted, intervalAt, toastTimers, clipboard, now, issued,
                   lastCopyAt>>

\* As fetchBlockMetricsOk, but a success also clears the error message.
fetchBlockMetricsOk_ClearsError(r, data) ==
    /\ r \in inflight /\ r.stream = "metrics"
    /\ inflight' = inflight \ {r}
    /\ latestBlock' = setState(latestBlock, data)
    /\ error' = setState(error, NoError)
    /\ loading' = setState(loading, FALSE)
    /\ lastOf' = [lastOf EXCEPT !["metrics"] = Settled(r, TRUE, data)]
    /\ UNCHANGED <<API_BASE_URL, blockDetails, blockHistory, bitcoinHistory,
                   showToast, mounted, intervalAt, toastTimers, clipboard, now,
                   issued, lastCopyAt>>

fetchBlockMetricsOk(r, data) ==
    /\ r \in inflight /\ r.stream = "metrics"
    /\ inflight' = inflight \ {r}
    /\ latestBlock' = setState(latestBlock, data)
    /\ loading' = setState(loading, FALSE)
    /\ lastOf' = [lastOf EXCEPT !["metrics"] = Settled(r, TRUE, data)]
    /\ UNCHANGED <<API_BASE_URL, blockDetails, blockHistory, bitcoinHistory, error, showToast,
                   mounted, intervalAt, toastTimers, clipboard, now, issued,
                   lastCopyAt>>

\* As fetchBlockMetricsFail, but without the finally block.
fetchBlockMetricsFail_NoFinally(r) ==
    /\ r \in inflight /\ r.stream = "metrics"
    /\ inflight' = inflight \ {r}
    /\ error' = setState(error, MetricsMsg)
    /\ lastOf' = [lastOf EXCEPT !["metrics"] = Settled(r, FALSE, 0)]
    /\ UNCHANGED <<API_BASE_URL, latestBlock, blockDetails, blockHistory, bitcoinHistory, loading,
                   showToast, mounted, intervalAt, toastTimers, clipboard, now,
                   issued, lastCopyAt>>

\* As fetchBlockMetricsFail, but the catch branch also drops the snapshot.
fetchBlockMetricsFail_ClearsSnapshot(r) ==
    /\ r \in inflight /\ r.stream = "metrics"
    /\ inflight' = inflight \ {r}
    /\ latestBlock' = setState(latestBlock, Null)
    /\ error' = setState(error, MetricsMsg)
    /\ loading' = setState(loading, FALSE)
    /\ lastOf' = [lastOf EXCEPT !["metrics"] = Settled(r, FALSE, 0)]
    /\ UNCHANGED <<API_BASE_URL, blockDetails, blockHistory, bitcoinHistory,
                   showToast, mounted, intervalAt, toastTimers, clipboard, now,
                   issued, lastCopyAt>>

fetchBlockMetricsFail(r) ==
    /\ r \in inflight /\ r.stream = "metrics"
    /\ inflight' = inflight \ {r}
    /\ error' = setState(error, MetricsMsg)
    /\ loading' = setState(loading, FALSE)
    /\ lastOf' = [lastOf EXCEPT !["metrics"] = Settled(r, FALSE, 0)]
    /\ UNCHANGED <<API_BASE_URL, latestBlock, blockDetails, blockHistory, bitcoinHistory,
                   showToast, mounted, intervalAt, toastTimers, clipboard, now,
                   issued, lastCopyAt>>

(***************************************************************************)
(* fetchLatest15Blocks (App.tsx:56-64), from the point its request settles.*)
(***************************************************************************)
fetchLatest15BlocksOk(r, data) ==
    /\ r \in inflight /\ r.stream = "blocks"
    /\ inflight' = inflight \ {r}
    /\ blockHistory' = setState(blockHistory, data)
    /\ lastOf' = [lastOf EXCEPT !["blocks"] = Settled(r, TRUE, data)]
    /\ UNCHANGED <<API_BASE_URL, latestBlock, blockDetails, bitcoinHistory, loading, error,
                   showToast, mounted, intervalAt, toastTimers, clipboard, now,
                   issued, lastCopyAt>>

\* As fetchLatest15BlocksFail, but the catch branch fetches the list again.
fetchLatest15BlocksFail_Retry(r) ==
    /\ r \in inflight /\ r.stream = "blocks"
    /\ inflight' = (inflight \ {r}) \cup
                        (IF r.n = 0 THEN {Request("blocks", 1, 0)} ELSE {})
    /\ issued' = [issued EXCEPT !["blocks"] = IF r.n = 0 THEN @ + 1 ELSE @]
    /\ error' = setState(error, BlocksMsg)
    /\ lastOf' = [lastOf EXCEPT !["blocks"] = Settled(r, FALSE, 0)]
    /\ UNCHANGED <<API_BASE_URL, latestBlock, blockDetails, blockHistory, bitcoinHistory,
                   loading, showToast, mounted, intervalAt, toastTimers, clipboard,
                   now, lastCopyAt>>

fetchLatest15BlocksFail(r) ==
    /\ r \in inflight /\ r.stream = "blocks"
    /\ inflight' = inflight \ {r}
    /\ error' = setState(error, BlocksMsg)
    /\ lastOf' = [lastOf EXCEPT !["blocks"] = Settled(r, FALSE, 0)]
    /\ UNCHANGED <<API_BASE_URL, latestBlock, blockDetails, blockHistory, bitcoinHistory,
                   loading, showToast, mounted, intervalAt, toastTimers, clipboard,
                   now, issued, lastCopyAt>>

(***************************************************************************)
(* fetchBitcoinHistory (App.tsx:66-82), from the point its request settles.*)
(* A response without a `prices` array throws inside the try block and     *)
(* takes the catch branch like a transport failure.                        *)
(***************************************************************************)
fetchBitcoinHistoryOk(r, prices) ==
    /\ r \in inflight /\ r.stream = "history"
    /\ inflight' = inflight \ {r}
    /\ bitcoinHistory' = setState(bitcoinHistory, <<formattedData(prices)>>)
    /\ lastOf' = [lastOf EXCEPT !["history"] = Settled(r, TRUE, prices)]
    /\ UNCHANGED <<API_BASE_URL, latestBlock, blockDetails, blockHistory, loading, error,
                   showToast, mounted, intervalAt, toastTimers, clipboard, now,
                   issued, lastCopyAt>>

\* As fetchBitcoinHistoryFail, but the catch branch reports through setError.
fetchBitcoinHistoryFail_SetsError(r) ==
    /\ r \in inflight /\ r.stream = "history"
    /\ inflight' = inflight \ {r}
    /\ error' = setState(error, "Failed to fetch Bitcoin price history.")
    /\ lastOf' = [lastOf EXCEPT !["history"] = Settled(r, FALSE, 0)]
    /\ UNCHANGED <<API_BASE_URL, latestBlock, blockDetails, blockHistory, bitcoinHistory,
                   loading, showToast, mounted, intervalAt, toastTimers, clipboard,
                   now, issued, lastCopyAt>>

\* As fetchBitcoinHistoryFail, but the catch branch fetches the history again.
fetchBitcoinHistoryFail_Retry(r) ==
    /\ r \in inflight /\ r.stream = "history"
    /\ inflight' = (inflight \ {r}) \cup
                        (IF r.n = 0 THEN {Request("history", 1, 0)} ELSE {})
    /\ issued' = [issued EXCEPT !["history"] = IF r.n = 0 THEN @ + 1 ELSE @]
    /\ lastOf' = [lastOf EXCEPT !["history"] = Settled(r, FALSE, 0)]
    /\ UNCHANGED <<API_BASE_URL, view, mounted, intervalAt, toastTimers, clipboard, now,
                   lastCopyAt>>

fetchBitcoinHistoryFail(r) ==
    /\ r \in inflight /\ r.stream = "history"
    /\ inflight' = inflight \ {r}
    /\ lastOf' = [lastOf EXCEPT !["history"] = Settled(r, FALSE, 0)]
    /\ UNCHANGED <<API_BASE_URL, view, mounted, intervalAt, toastTimers, clipboard, now, issued,
                   lastCopyAt>>

(***************************************************************************)
(* A click on a block-item (App.tsx:284-289) calls fetchBlockDetails       *)
(* (App.tsx:92-100), which issues its request; the rest runs when the      *)
(* request settles.                                                        *)
(***************************************************************************)
\* As fetchBlockDetails, but callable for a height that is not listed.
fetchBlockDetails_AnyHeight(blockHeight) ==
    /\ mounted
    /\ Gestures < MaxGestures
    /\ inflight' = inflight \cup {Request("details", issued["details"], blockHeight)}
    /\ issued' = [issued EXCEPT !["details"] = @ + 1]
    /\ UNCHANGED <<API_BASE_URL, view, mounted, intervalAt, toastTimers, clipboard,
                   now, lastOf, lastCopyAt>>

fetchBlockDetails(blockHeight) ==
    /\ mounted
    /\ Len(blockHistory) > 0
    /\ blockHeight \in Range(blockHistory)
    /\ Gestures < MaxGestures
    /\ inflight' = inflight \cup {Request("details", issued["details"], blockHeight)}
    /\ issued' = [issued EXCEPT !["details"] = @ + 1]
    /\ UNCHANGED <<API_BASE_URL, view, mounted, intervalAt, toastTimers, clipboard, now, lastOf,
                   lastCopyAt>>

\* As fetchBlockDetailsOk, but the response of a superseded click is dropped.
fetchBlockDetailsOk_LastRequested(r, data) ==
    /\ r \in inflight /\ r.stream = "details"
    /\ inflight' = inflight \ {r}
    /\ blockDetails' = IF r.n + 1 < issued["details"] THEN blockDetails
                       ELSE setState(blockDetails, data)
    /\ lastOf' = [lastOf EXCEPT !["details"] = Settled(r, TRUE, data)]
    /\ UNCHANGED <<API_BASE_URL, latestBlock, blockHistory, bitcoinHistory, loading, error,
                   showToast, mounted, intervalAt, toastTimers, clipboard, now,
                   issued, lastCopyAt>>

fetchBlockDetailsOk(r, data) ==
    /\ r \in inflight /\ r.stream = "details"
    /\ inflight' = inflight \ {r}
    /\ blockDetails' = setState(blockDetails, data)
    /\ lastOf' = [lastOf EXCEPT !["details"] = Settled(r, TRUE, data)]
    /\ UNCHANGED <<API_BASE_URL, latestBlock, blockHistory, bitcoinHistory, loading, error,
                   showToast, mounted, intervalAt, toastTimers, clipboard, now,
                   issued, lastCopyAt>>

fetchBlockDetailsFail(r) ==
    /\ r \in inflight /\ r.stream = "details"
    /\ inflight' = inflight \ {r}
    /\ error' = setState(error, DetailsMsg)
    /\ lastOf' = [lastOf EXCEPT !["details"] = Settled(r, FALSE, 0)]
    /\ UNCHANGED <<API_BASE_URL, latestBlock, blockDetails, blockHistory, bitcoinHistory,
                   loading, showToast, mounted, intervalAt, toastTimers, clipboard,
                   now, issued, lastCopyAt>>

(***************************************************************************)
(* The setInterval callback (App.tsx:87): every PollInterval ms it calls   *)
(* fetchBlockMetrics, which issues a request.                              *)
(***************************************************************************)
\* As IntervalTick, but a tick is skipped while a metrics request is in flight.
IntervalTick_SkipWhenBusy ==
    /\ intervalAt = now
    /\ intervalAt' = now + PollInterval
    /\ IF \E r \in inflight : r.stream = "metrics"
       THEN UNCHANGED <<API_BASE_URL, inflight, issued>>
       ELSE /\ inflight' = inflight \cup {Request("metrics", issued["metrics"], 0)}
            /\ issued' = [issued EXCEPT !["metrics"] = @ + 1]
    /\ UNCHANGED <<API_BASE_URL, view, mounted, toastTimers, clipboard, now, lastOf, lastCopyAt>>

IntervalTick ==
    /\ intervalAt = now
    /\ intervalAt' = now + PollInterval
    /\ inflight' = inflight \cup {Request("metrics", issued["metrics"], 0)}
    /\ issued' = [issued EXCEPT !["metrics"] = @ + 1]
    /\ UNCHANGED <<API_BASE_URL, view, mounted, toastTimers, clipboard, now, lastOf, lastCopyAt>>

(***************************************************************************)
(* The effect's cleanup (App.tsx:88), run when the component unmounts.     *)
(***************************************************************************)
\* As Unmount, but the effect returns no cleanup.
Unmount_NoCleanup ==
    /\ mounted
    /\ mounted' = FALSE
    /\ UNCHANGED <<API_BASE_URL, view, inflight, intervalAt, toastTimers, clipboard, now, hist>>

Unmount ==
    /\ mounted
    /\ mounted' = FALSE
    /\ intervalAt' = Never
    /\ UNCHANGED <<API_BASE_URL, view, inflight, toastTimers, clipboard, now, hist>>

(***************************************************************************)
(* copyToClipboard (App.tsx:167-173), called from the copy buttons, which  *)
(* are rendered for a held latestBlock or blockDetails (App.tsx:183-278,   *)
(* 297-392).  `text` is the payload whose hash, merkle root or miner is    *)
(* copied; `written` is whether the clipboard write takes effect (its      *)
(* promise is neither awaited nor caught).                                 *)
(***************************************************************************)
\* As copyToClipboard, but the toast is shown only once the write has succeeded.
copyToClipboard_AwaitWrite(text, written) ==
    /\ mounted
    /\ text \in {latestBlock, blockDetails} \ {Null}
    /\ Gestures < MaxGestures
    /\ clipboard' = IF written THEN text ELSE clipboard
    /\ showToast' = IF written THEN setState(showToast, TRUE) ELSE showToast
    /\ toastTimers' = IF written THEN Append(toastTimers, now + ToastDelay)
                      ELSE toastTimers
    /\ issued' = [issued EXCEPT !["copy"] = @ + 1]
    /\ lastCopyAt' = now
    /\ UNCHANGED <<API_BASE_URL, latestBlock, blockDetails, blockHistory, bitcoinHistory,
                   loading, error, mounted, inflight, intervalAt, now, lastOf>>

copyToClipboard(text, written) ==
    /\ mounted
    /\ text \in {latestBlock, blockDetails} \ {Null}
    /\ Gestures < MaxGestures
    /\ clipboard' = IF written THEN text ELSE clipboard
    /\ showToast' = setState(showToast, TRUE)
    /\ toastTimers' = Append(toastTimers, now + ToastDelay)
    /\ issued' = [issued EXCEPT !["copy"] = @ + 1]
    /\ lastCopyAt' = now
    /\ UNCHANGED <<API_BASE_URL, latestBlock, blockDetails, blockHistory, bitcoinHistory,
                   loading, error, mounted, inflight, intervalAt, now, lastOf>>

\* The setTimeout callback (App.tsx:170-172) of the oldest pending timer.
ToastTimeout ==
    /\ toastTimers # <<>>
    /\ Head(toastTimers) = now
    /\ toastTimers' = Tail(toastTimers)
    /\ showToast' = setState(showToast, FALSE)
    /\ UNCHANGED <<API_BASE_URL, latestBlock, blockDetails, blockHistory, bitcoinHistory,
                   loading, error, mounted, inflight, intervalAt, clipboard, now,
                   hist>>

(***************************************************************************)
(* The clock advances once every timer that is due has run.  While a toast *)
(* timer is pending it advances by TimeStep, so that copy calls and        *)
(* timeouts interleave at every offset; otherwise it advances to the       *)
(* interval timer's next deadline, up to MaxTime.                           *)
(***************************************************************************)
TimerDue ==
    \/ intervalAt = now
    \/ toastTimers # <<>> /\ Head(toastTimers) = now

NextInstant ==
    IF toastTimers # <<>> \/ intervalAt = Never THEN now + TimeStep ELSE intervalAt

Advance ==
    /\ ~TimerDue
    /\ toastTimers # <<>> \/ intervalAt # Never
    /\ toastTimers # <<>> \/ NextInstant <= MaxTime
    /\ now' = NextInstant
    /\ UNCHANGED <<API_BASE_URL, view, mounted, inflight, intervalAt, toastTimers, clipboard,
                   hist>>

Next ==
    \/ \E r \in inflight, data \in Payloads : fetchBlockMetricsOk(r, data)
    \/ \E r \in inflight : fetchBlockMetricsFail(r)
    \/ \E r \in inflight, data \in BlockLists : fetchLatest15BlocksOk(r, data)
    \/ \E r \in inflight : fetchLatest15BlocksFail(r)
    \/ \E r \in inflight, prices \in PriceSamples : fetchBitcoinHistoryOk(r, prices)
    \/ \E r \in inflight : fetchBitcoinHistoryFail(r)
    \/ \E h \in Heights : fetchBlockDetails(h)
    \/ \E r \in inflight, data \in Payloads : fetchBlockDetailsOk(r, data)
    \/ \E r \in inflight : fetchBlockDetailsFail(r)
    \/ IntervalTick
    \/ Unmount
    \/ \E text \in Payloads, written \in BOOLEAN : copyToClipboard(text, written)
    \/ ToastTimeout
    \/ Advance

Spec == Init /\ [][Next]_vars

\* The same program, built without the backend base URL.
SpecUnset == InitUnset /\ [][Next]_vars

(***************************************************************************)
(* chartData (App.tsx:102-107): the labels and the values handed to the    *)
(* chart, computed from the bitcoinHistory slot on every render.           *)
(***************************************************************************)
chartLabels ==
    IF bitcoinHistory # NoHistory
    THEN [i \in 1..Len(bitcoinHistory[1]) |-> bitcoinHistory[1][i].date]
    ELSE <<>>

chartValues ==
    IF bitcoinHistory # NoHistory
    THEN [i \in 1..Len(bitcoinHistory[1]) |-> bitcoinHistory[1][i].price]
    ELSE <<>>

\* The price-sample lists the chart data is checked on: every list of up to
\* MaxSamples [epoch_ms, price] pairs over a few instants and prices.
SampleTimes == {0, 3600000, 7200000, MsPerDay}
SamplePrices == {100, 105, 110}
ChartSamples ==
    UNION {[1..n -> SampleTimes \X SamplePrices] : n \in 0..MaxSamples}

\* The price-history stream alone, over every list of ChartSamples.
ChartNext ==
    \/ \E r \in {x \in inflight : x.stream = "history"}, prices \in ChartSamples :
          fetchBitcoinHistoryOk(r, prices)
    \/ \E r \in inflight : fetchBitcoinHistoryFail(r)

SpecChart == Init /\ [][ChartNext]_vars

\* The event loop runs every timer callback that is due, and time passes.
FairSpec ==
    Spec /\ WF_vars(IntervalTick) /\ WF_vars(ToastTimeout) /\ WF_vars(Advance)

(***************************************************************************)
(* Properties.                                                             *)
(***************************************************************************)
Settles(s) == lastOf[s].n # Never
Succeeded(s) == Settles(s) /\ lastOf[s].ok
Failed(s) == Settles(s) /\ ~lastOf[s].ok
\* The stream's latest response was overtaken: a younger request's response
\* had been applied before it.
Overtaken(s) == Succeeded(s) /\ lastOf[s].n < lastOf[s].newest

\* C1: while fewer than ToastDelay ms have passed since the most recent copy
\* call the toast is visible, whatever earlier calls scheduled, and once that
\* call's timeout has run it is hidden.
C1_CopyRestartsCountdown ==
    mounted /\ lastCopyAt # Never =>
        /\ now < lastCopyAt + ToastDelay => showToast
        /\ now >= lastCopyAt + ToastDelay /\ toastTimers = <<>> => ~showToast

\* C2: the displayed block detail is the payload of the detail request that
\* settled most recently, whatever the order of the clicks.
C2_DetailLastResolvedWins ==
    mounted /\ Succeeded("details") => blockDetails = lastOf["details"].data

\* The first click's response arrived after the second click's and is displayed.
C2_Witness ==
    /\ mounted
    /\ issued["details"] = 2
    /\ Overtaken("details")
    /\ lastOf["details"].n = 0
    /\ blockDetails = lastOf["details"].data

\* C3: the displayed snapshot is the payload of the poller request that
\* settled most recently, whatever the order the ticks were issued in.
C3_SnapshotLastResolvedWins ==
    mounted /\ Succeeded("metrics") => latestBlock = lastOf["metrics"].data

\* The mount-time request's response arrived after the first tick's and is displayed.
C3_Witness ==
    /\ mounted
    /\ Overtaken("metrics")
    /\ lastOf["metrics"].n = 0
    /\ latestBlock = lastOf["metrics"].data

\* The static message of each stream that reports failures to the user.
ErrorMessage(s) ==
    CASE s = "metrics" -> MetricsMsg
      [] s = "blocks" -> BlocksMsg
      [] s = "details" -> DetailsMsg

\* The messages the view displays (App.tsx:180).
Displayed == {error} \ {NoError}

\* C4: every stream whose latest fetch failed has its own message displayed,
\* whichever other streams failed later.
C4_OwnErrorSlot ==
    mounted =>
        \A s \in {"metrics", "blocks", "details"} :
            Failed(s) => ErrorMessage(s) \in Displayed

\* C5: while mounted, the poller has issued one request at mount and one at
\* every multiple of PollInterval reached since, and the next is scheduled,
\* whatever happened to the earlier requests.
C5_PollerSchedule ==
    mounted =>
        /\ issued["metrics"] >= 1
        /\ intervalAt = issued["metrics"] * PollInterval
        /\ intervalAt - PollInterval <= now /\ now <= intervalAt

\* A tick was issued while the mount-time request was still in flight.
C5_Witness ==
    /\ mounted
    /\ Request("metrics", 0, 0) \in inflight
    /\ Request("metrics", 1, 0) \in inflight
    /\ now = PollInterval

\* C6: a failure of the price-history fetch changes no state slot.
C6_HistoryFailureFrame ==
    [][(\E r \in inflight : fetchBitcoinHistoryFail(r)) => UNCHANGED view]_vars

\* The price-history fetch has failed beside data and a message of other streams.
C6_Witness ==
    /\ mounted
    /\ Failed("history")
    /\ latestBlock # Null
    /\ blockHistory # <<>>
    /\ error = DetailsMsg
    /\ bitcoinHistory = NoHistory

\* C7: while mounted, the loading flag is set exactly until a poller request
\* has settled.
C7_LoadingUntilFirstMetrics ==
    mounted => (loading <=> ~Settles("metrics"))

\* A poller request failed, a later tick is in flight, and loading stays off.
C7_Witness ==
    /\ mounted
    /\ ~loading
    /\ Failed("metrics")
    /\ Request("metrics", 1, 0) \in inflight

\* C8: the block list is fetched once; once that fetch has failed the list is
\* empty, a message is displayed and no detail fetch has been issued.
C8_BlockListOnce ==
    /\ issued["blocks"] = 1
    /\ Failed("blocks") =>
        /\ blockHistory = <<>>
        /\ issued["details"] = 0
        /\ \A r \in inflight : r.stream # "blocks"
        /\ mounted => error # NoError

\* The block-list fetch failed and the session went on past the first tick.
C8_Witness ==
    /\ mounted
    /\ Failed("blocks")
    /\ latestBlock # Null
    /\ now > PollInterval

\* C9: once unmounted, no poller request is issued and no state slot changes;
\* unmounting itself leaves the requests in flight in flight.
C9_TeardownStopsPoller ==
    [][/\ ~mounted => /\ issued'["metrics"] = issued["metrics"]
                      /\ intervalAt' = Never
                      /\ view' = view
       /\ mounted /\ ~mounted' => inflight' = inflight]_vars

\* The first tick's response arrived after the unmount and was not applied:
\* no snapshot is held.
C9_Witness ==
    /\ ~mounted
    /\ Succeeded("metrics")
    /\ lastOf["metrics"].n = 1
    /\ latestBlock = Null

\* C10: once a poller fetch has succeeded, the poller's failure message is
\* no longer displayed.
C10_SuccessClearsFailure ==
    mounted /\ Succeeded("metrics") => MetricsMsg \notin Displayed

\* A step in which copyToClipboard is called.
CopyStep == issued'["copy"] # issued["copy"]

\* C11: every copy call shows the toast at once and changes no other state
\* slot, whether or not the clipboard write took effect; the toast goes from
\* hidden to visible by a copy call only; and a visible toast is hidden again
\* once the timers have run.
C11_ToastStateMachine ==
    /\ [][CopyStep =>
            /\ showToast'
            /\ UNCHANGED <<latestBlock, blockDetails, blockHistory, bitcoinHistory,
                           loading, error>>]_vars
    /\ [][~showToast /\ showToast' => CopyStep]_vars
    /\ [](mounted /\ toastTimers = <<>> => ~showToast)
    /\ (mounted /\ showToast) ~> (~showToast \/ ~mounted)

\* A copy call whose clipboard write failed has shown the toast, and the toast
\* is hidden again after the timeout.
C11_Witness ==
    /\ mounted
    /\ issued["copy"] = 1
    /\ clipboard = Null
    /\ lastCopyAt # Never
    /\ now = lastCopyAt + ToastDelay
    /\ toastTimers = <<>>
    /\ ~showToast

\* C12: the chart's labels and values have the length and the order of the
\* price samples received: value i is the price of sample i and label i is the
\* formatted date of its timestamp.
C12_ChartDataAligned ==
    mounted /\ Succeeded("history") =>
        LET prices == lastOf["history"].data IN
        /\ Len(chartLabels) = Len(prices)
        /\ Len(chartValues) = Len(prices)
        /\ \A i \in 1..Len(prices) :
            /\ chartValues[i] = prices[i][2]
            /\ chartLabels[i] = toLocaleDateString(prices[i][1])

\* The samples [[0, 100], [3600000, 110], [7200000, 105]] give the values
\* 100, 110, 105 and three labels of the same day.
C12_Witness ==
    /\ Succeeded("history")
    /\ lastOf["history"].data = <<<<0, 100>>, <<3600000, 110>>, <<7200000, 105>>>>
    /\ chartValues = <<100, 110, 105>>
    /\ chartLabels = <<0, 0, 0>>

\* The chart is rendered (App.tsx:395-400).
ChartPresent == bitcoinHistory # NoHistory

\* C13: the price history is fetched once; while mounted the chart is present
\* exactly when that fetch has succeeded, and then its series is the one made
\* from that response; once the fetch has failed the chart is absent and no
\* further request is in flight.
C13_ChartFromSingleFetch ==
    /\ issued["history"] = 1
    /\ mounted => (ChartPresent <=> Succeeded("history"))
    /\ mounted /\ Succeeded("history") =>
        bitcoinHistory = <<formattedData(lastOf["history"].data)>>
    /\ Failed("history") =>
        /\ ~ChartPresent
        /\ \A r \in inflight : r.stream # "history"

\* The price-history fetch failed and the session went on past the first tick
\* without a chart.
C13_Witness ==
    /\ mounted
    /\ Failed("history")
    /\ ~ChartPresent
    /\ latestBlock # Null
    /\ now > PollInterval

\* C14: no request is in flight to a URL built from a missing base URL, and
\* with the base URL missing no backend request has been issued (stated of
\* SpecUnset, the build without the base URL).
C14_NoRequestFromMissingBase ==
    /\ \A r \in inflight : Url(r)[1] # Undefined
    /\ API_BASE_URL = Undefined =>
        \A s \in {"metrics", "blocks", "details"} : issued[s] = 0

\* Request r settles successfully and its payload is written to its stream's slot.
Applies(r) ==
    \/ \E data \in Payloads :
          fetchBlockMetricsOk(r, data) /\ latestBlock' = data
    \/ \E data \in BlockLists :
          fetchLatest15BlocksOk(r, data) /\ blockHistory' = data
    \/ \E data \in Payloads :
          fetchBlockDetailsOk(r, data) /\ blockDetails' = data
    \/ \E prices \in PriceSamples :
          fetchBitcoinHistoryOk(r, prices) /\ bitcoinHistory' = <<formattedData(prices)>>

\* C15: while mounted, whatever else is in flight, every request in flight
\* can settle and update its slot, a due tick issues a poller request, and a
\* listed height can be clicked.
C15_HungRequestStallsOnlyItself ==
    mounted =>
        /\ \A r \in inflight : ENABLED Applies(r)
        /\ intervalAt = now =>
            ENABLED (IntervalTick /\ issued'["metrics"] = issued["metrics"] + 1)
        /\ Gestures < MaxGestures =>
            \A h \in Range(blockHistory) : ENABLED fetchBlockDetails(h)

\* The mount-time poller request is still in flight while the first tick's
\* response and every other stream's response have been applied.
C15_Witness ==
    /\ mounted
    /\ Request("metrics", 0, 0) \in inflight
    /\ lastOf["metrics"].n = 1
    /\ Succeeded("metrics")
    /\ latestBlock = lastOf["metrics"].data
    /\ Succeeded("blocks")
    /\ Succeeded("details")
    /\ blockDetails = lastOf["details"].data
    /\ Succeeded("history")
    /\ ChartPresent

\* A step in which a request of stream s settles, fails, succeeds.
SettleStep(s) == lastOf'[s] # lastOf[s]
FailStep(s) == SettleStep(s) /\ ~lastOf'[s].ok
OkStep(s) == SettleStep(s) /\ lastOf'[s].ok

\* C16: the selected block detail is absent until a detail fetch has
\* succeeded, takes the whole payload of each detail fetch that succeeds, and
\* is changed by no other step.
C16_DetailOwnedByDetailFetch ==
    /\ [](lastOf["details"].newest = Never => blockDetails = Null)
    /\ [][mounted /\ OkStep("details") =>
                blockDetails' = lastOf'["details"].data]_vars
    /\ [][~OkStep("details") => blockDetails' = blockDetails]_vars

\* A detail is displayed while the first tick's response, the block list and
\* a price-history failure have all settled.
C16_Witness ==
    /\ mounted
    /\ blockDetails # Null
    /\ blockDetails = lastOf["details"].data
    /\ lastOf["metrics"].n = 1
    /\ latestBlock # blockDetails
    /\ Failed("history")

\* C17: a failed poller or detail fetch leaves every data slot as it was; the
\* loading flag too, once a snapshot is held or when the fetch is a detail
\* fetch.
C17_FailureKeepsData ==
    [][\A s \in {"metrics", "details"} :
          FailStep(s) =>
            /\ UNCHANGED <<latestBlock, blockDetails, blockHistory, bitcoinHistory,
                           showToast>>
            /\ latestBlock # Null \/ s = "details" => UNCHANGED loading]_vars

\* A poller fetch and a detail fetch have failed, each after an earlier
\* success whose data is still displayed.
C17_Witness ==
    /\ mounted
    /\ Failed("metrics") /\ latestBlock # Null
    /\ Failed("details") /\ blockDetails # Null
    /\ error = DetailsMsg

\* C18: while mounted, a set error message is never unset; a failure of the
\* poller, block-list or detail fetch sets its own message, and no other step
\* changes the message.
C18_ErrorSticky ==
    [][mounted =>
          /\ error # NoError => error' # NoError
          /\ \A s \in {"metrics", "blocks", "details"} :
                FailStep(s) => error' = ErrorMessage(s)
          /\ (\A s \in {"metrics", "blocks", "details"} : ~FailStep(s)) =>
                error' = error]_vars

\* The poller's message is still displayed after the first tick's fetch and
\* the block-list fetch have succeeded.
C18_Witness ==
    /\ mounted
    /\ error = MetricsMsg
    /\ Succeeded("metrics") /\ lastOf["metrics"].n = 1
    /\ Succeeded("blocks")

\* C19: every detail request in flight is for a height of the held block
\* list, and a detail is issued or displayed only once the block-list fetch
\* has succeeded with a non-empty list.
C19_DetailOnlyForListedHeight ==
    /\ \A r \in inflight :
          r.stream = "details" => r.height \in Range(blockHistory)
    /\ issued["details"] > 0 \/ blockDetails # Null =>
          /\ Succeeded("blocks")
          /\ lastOf["blocks"].data # <<>>

\* A detail is displayed, fetched from a list of two heights.
C19_Witness ==
    /\ mounted
    /\ blockDetails # Null
    /\ Len(blockHistory) = 2
    /\ blockHistory = lastOf["blocks"].data

====
